---------------------------- MODULE Spec2Model ----------------------------
(***************************************************************************)
(* A model of src/cargo.rs of xargo: the flag resolver (flags, rustflags,  *)
(* rustdocflags), the two cache-key contributors (Rustflags::hash and      *)
(* Profile::hash), the serialization of flag lists for the nested cargo,   *)
(* the project locator (root) and the subcommand classifier.               *)
(*                                                                         *)
(* Strings are TLA+ strings, read character by character with Len and      *)
(* SubSeq and built with \o.  The functions of cargo.rs are operators; an  *)
(* action calls one of them on the current state and records the call and  *)
(* what it returned in the variables call and ret.                         *)
(***************************************************************************)
EXTENDS Integers, Sequences, FiniteSets, TLC

VARIABLES
    env,        \* the process environment: variable name -> value or Unset
    config,     \* Option<Config>: None, or the Value parsed from .cargo/config
    rflags,     \* Rustflags.flags of the Rustflags object
    rdflags,    \* the Rustdocflags object (its flags), or Moved
    profile,    \* the Value a Profile borrows (Profile.table)
    fs,         \* the file system seen by root: cwd and the marker files
    call,       \* the last call made: its name and its arguments
    ret         \* what that call returned (for hash: the hasher after it)

vars == <<env, config, rflags, rdflags, profile, fs, call, ret>>

\* Option::None, and the state before any call.
None == [tag |-> "None"]
NoCall == [op |-> "none"]

(***************************************************************************)
(* Bounds of the model.                                                    *)
(***************************************************************************)
\* Longest flag list a Rustflags object is grown to by push.
MaxFlags == 3

(***************************************************************************)
(* Strings.                                                                *)
(***************************************************************************)
\* str::starts_with
StartsWith(s, p) == Len(s) >= Len(p) /\ SubSeq(s, 1, Len(p)) = p

\* The sequences over S of length at most n.
SeqUpTo(S, n) == UNION {[1..k -> S] : k \in 0..n}

(***************************************************************************)
(* Rustflags::hash (cargo.rs 21-43).  A Hasher is fed bytes; the model     *)
(* keeps the stream of bytes fed so far as a string.                       *)
(***************************************************************************)
\* The byte 0xff that str::hash feeds after the bytes of the string.  No
\* UTF-8 string contains that byte; "$" stands for it and occurs in no token.
HashTerm == "$"

\* flag.hash(hasher): the bytes of the string, then the terminator.
HashStr(h, s) == h \o s \o HashTerm

\* next.starts_with("link-arg=") || next.starts_with("link-args=")
IsLinkArgSingularOnly(next) == StartsWith(next, "link-arg=")
IsLinkArg(next) == StartsWith(next, "link-arg=") \/ StartsWith(next, "link-args=")

\* The while-let loop of Rustflags::hash with the iterator at position i
\* (1-based).  st.h is the hasher, st.seen the positions of the tokens that
\* were hashed, in the order of the hash calls.
RECURSIVE HashLoop(_, _, _)
HashLoopDropsLoneMarker(fl, i, st) ==
    IF i > Len(fl) THEN st
    ELSE IF fl[i] = "-C"
         THEN IF i + 1 <= Len(fl)
              THEN IF IsLinkArg(fl[i + 1])
                   THEN HashLoop(fl, i + 2, st)
                   ELSE HashLoop(fl, i + 2,
                            [h |-> HashStr(HashStr(st.h, fl[i]), fl[i + 1]),
                             seen |-> st.seen \o <<i, i + 1>>])
              ELSE st
         ELSE HashLoop(fl, i + 1,
                  [h |-> HashStr(st.h, fl[i]), seen |-> Append(st.seen, i)])
HashLoop(fl, i, st) ==
    IF i > Len(fl) THEN st
    ELSE IF fl[i] = "-C"
         THEN IF i + 1 <= Len(fl)
              THEN IF IsLinkArg(fl[i + 1])
                   THEN HashLoop(fl, i + 2, st)
                   ELSE HashLoop(fl, i + 2,
                            [h |-> HashStr(HashStr(st.h, fl[i]), fl[i + 1]),
                             seen |-> st.seen \o <<i, i + 1>>])
              ELSE HashLoop(fl, i + 1,
                       [h |-> HashStr(st.h, fl[i]), seen |-> Append(st.seen, i)])
         ELSE HashLoop(fl, i + 1,
                  [h |-> HashStr(st.h, fl[i]), seen |-> Append(st.seen, i)])

\* Rustflags::hash(&self, hasher)
RustflagsHash(fl, h) == HashLoop(fl, 1, [h |-> h, seen |-> <<>>])

\* The tokens pushed onto a Rustflags object in this model.
HashTokens ==
    {"-C", "link-arg=/tmp/a", "link-arg=/tmp/b", "link-args=-s", "link-arg",
     "opt-level=2", "opt-level=3", "-Copt-level=2"}

\* What the hasher handed to hash was fed before the call.
PriorHashers == {"", "thumbv7m$"}

\* Rustflags::push
Push(t) ==
    /\ Len(rflags) < MaxFlags
    /\ rflags' = Append(rflags, t)
    /\ UNCHANGED <<env, config, rdflags, profile, fs, call, ret>>

\* A call of Rustflags::hash with a hasher that was fed h0 before.
Hash(h0) ==
    /\ call' = [op |-> "Rustflags::hash", self |-> rflags, h0 |-> h0]
    /\ ret' = RustflagsHash(rflags, h0)
    /\ UNCHANGED <<env, config, rflags, rdflags, profile, fs>>

\* The state of the parts of the program a specification does not exercise.
IdleFlags == env = <<>> /\ config = None
IdleRustflags == rflags = <<>>
IdleRustdocflags == rdflags = [tag |-> "Owned", flags |-> <<>>]
IdleProfile == profile = None
IdleRoot == fs = None

InitRustflags ==
    /\ IdleFlags /\ IdleRustdocflags /\ IdleProfile /\ IdleRoot
    /\ rflags = <<>>
    /\ call = NoCall
    /\ ret = None

NextRustflags ==
    \/ \E t \in HashTokens : Push(t)
    \/ \E h0 \in PriorHashers : Hash(h0)

SpecRustflags == InitRustflags /\ [][NextRustflags]_vars

(***************************************************************************)
(* Properties of Rustflags::hash.                                          *)
(***************************************************************************)
\* The bytes a call of hash fed to the hasher: what follows the prior content.
Fed(c, r) == SubSeq(r.h, Len(c.h0) + 1, Len(r.h))

\* A byte stream cut after each terminator: the strings that were hashed.
RECURSIVE SplitTerminated(_)
SplitTerminated(s) ==
    IF s = "" THEN <<>>
    ELSE LET ends == {k \in 1..Len(s) : SubSeq(s, k, k) = HashTerm}
         IN IF ends = {} THEN <<s>>
            ELSE LET k == CHOOSE e \in ends : \A f \in ends : e <= f
                 IN <<SubSeq(s, 1, k - 1)>> \o SplitTerminated(SubSeq(s, k + 1, Len(s)))

\* The token begins with the linker-argument prefix, singular or plural.
LinkerPrefixed(t) == StartsWith(t, "link-arg=") \/ StartsWith(t, "link-args=")
SamePrefix(t, u) ==
    \/ StartsWith(t, "link-arg=") /\ StartsWith(u, "link-arg=")
    \/ StartsWith(t, "link-args=") /\ StartsWith(u, "link-args=")

\* Linker arguments that differ in the text after the prefix.
LinkerTexts ==
    {"link-arg=/tmp/a", "link-arg=/tmp/b", "link-arg=", "link-arg=-C",
     "link-args=-s", "link-args=-L /opt/lib", "link-args="}

Range(q) == {q[k] : k \in DOMAIN q}
IsHashCall == call.op = "Rustflags::hash"

\* The hasher keeps what it was fed before, and the bytes fed by the call are
\* the tokens at the positions in ret.seen, each followed by the terminator.
FedIsSeen ==
    /\ StartsWith(ret.h, call.h0)
    /\ SplitTerminated(Fed(call, ret)) = [k \in DOMAIN ret.seen |-> call.self[ret.seen[k]]]

\* Token i is "-C" and the run of consecutive "-C" tokens that ends at i has
\* odd length: the scan reads token i as a marker, not as the value that
\* follows the marker before it.
MarkerAt(fl, i) ==
    /\ fl[i] = "-C"
    /\ Cardinality({j \in 1..i : \A k \in j..i : fl[k] = "-C"}) % 2 = 1

\* C1 as stated: for every position i with token i equal to "-C" and a token
\* i+1 that begins with "link-arg=" or "link-args=", neither token i nor
\* token i+1 is written to the digest.
C1_EveryDashCPosition ==
    IsHashCall =>
        \A i \in 1..(Len(call.self) - 1) :
            (call.self[i] = "-C" /\ LinkerPrefixed(call.self[i + 1]))
                => (i \notin Range(ret.seen) /\ (i + 1) \notin Range(ret.seen))

\* C1 amended: for every position i where token i is "-C" read as a marker
\* (the run of consecutive "-C" tokens ending at i has odd length) and token
\* i+1 begins with "link-arg=" or "link-args=", neither token is written to
\* the digest, and replacing token i+1 by any token with the same prefix
\* leaves the bytes fed to the hasher the same.
C1_MarkerSkipsLinkerArg ==
    IsHashCall =>
        /\ FedIsSeen
        /\ \A i \in 1..(Len(call.self) - 1) :
               (MarkerAt(call.self, i) /\ LinkerPrefixed(call.self[i + 1]))
                   => /\ i \notin Range(ret.seen)
                      /\ (i + 1) \notin Range(ret.seen)
                      /\ \A t \in LinkerTexts :
                             SamePrefix(t, call.self[i + 1])
                                 => RustflagsHash([call.self EXCEPT ![i + 1] = t],
                                                  call.h0).h = ret.h

\* A hash call on a list with a skipped linker argument pair and with other
\* tokens that were hashed.
C1_Witness ==
    /\ IsHashCall
    /\ Len(ret.seen) > 0
    /\ \E i \in 1..(Len(call.self) - 1) :
           /\ MarkerAt(call.self, i)
           /\ call.self[i + 1] = "link-arg=/tmp/a"

\* The flag lists with no token that begins with a linker-argument prefix.
CleanTokens == {t \in HashTokens : ~LinkerPrefixed(t)}
CleanLists == SeqUpTo(CleanTokens, MaxFlags)
CleanDigest == [g \in CleanLists, h \in PriorHashers |-> RustflagsHash(g, h).h]

\* C5: for a flag list with no token beginning with "link-arg=" or
\* "link-args=", every token is written to the digest exactly once and in
\* list order (a "-C" that is the last token included), and no other such
\* list feeds the hasher the same bytes.
C5_CleanListHashedWhole ==
    (IsHashCall /\ call.self \in CleanLists) =>
        /\ ret.seen = [k \in 1..Len(call.self) |-> k]
        /\ StartsWith(ret.h, call.h0)
        /\ SplitTerminated(Fed(call, ret)) = call.self
        /\ \A g \in CleanLists : CleanDigest[g, call.h0] = ret.h => g = call.self

\* A hash call on a list without linker arguments whose last token is "-C".
C5_Witness ==
    /\ IsHashCall
    /\ call.self \in CleanLists
    /\ Len(call.self) >= 2
    /\ call.self[Len(call.self)] = "-C"
    /\ call.self[1] = "opt-level=3"

(***************************************************************************)
(* Rustflags::build_for_xargo (cargo.rs 49-55) and Rustdocflags::for_xargo *)
(* (cargo.rs 79-86).                                                       *)
(***************************************************************************)
\* Longest flag list of the serialization model.
MaxXFlags == 2

\* The character U+001F (unit separator), the "\x1f" of build_for_xargo.
UnitSep == ""

\* [String]::join(sep)
RECURSIVE Join(_, _)
Join(q, sep) ==
    IF Len(q) = 0 THEN ""
    ELSE IF Len(q) = 1 THEN q[1]
    ELSE q[1] \o sep \o Join(Tail(q), sep)

\* Rustflags::build_for_xargo(&self, home); home is home.display().to_string()
BuildForXargoSpaceJoined(fl, home) == Join(fl \o <<"--sysroot", home>>, " ")
BuildForXargo(fl, home) == Join(fl \o <<"--sysroot", home>>, UnitSep)

\* Rustdocflags::for_xargo(self, home)
ForXargo(fl, home) == Join(fl \o <<"--sysroot", home>>, " ")

\* Flags and sysroot paths of the serialization model: with and without
\* spaces, and one flag that contains the unit separator.
XTokens == {"-g", "-L", "/my libs", "a" \o UnitSep \o "b"}
Homes == {"/home/u/.xargo", "/My Files/.xargo"}

\* The Rustdocflags object after for_xargo took it by value.
Moved == [tag |-> "Moved"]

CallBuildForXargo(home) ==
    /\ call' = [op |-> "Rustflags::build_for_xargo", self |-> rflags, home |-> home]
    /\ ret' = BuildForXargo(rflags, home)
    /\ UNCHANGED <<env, config, rflags, rdflags, profile, fs>>

CallForXargo(home) ==
    /\ rdflags.tag = "Owned"
    /\ call' = [op |-> "Rustdocflags::for_xargo", self |-> rdflags.flags, home |-> home]
    /\ ret' = ForXargo(rdflags.flags, home)
    /\ rdflags' = Moved
    /\ UNCHANGED <<env, config, rflags, profile, fs>>

PushX(t) ==
    /\ Len(rflags) < MaxXFlags
    /\ rflags' = Append(rflags, t)
    /\ UNCHANGED <<env, config, rdflags, profile, fs, call, ret>>

InitXargo ==
    /\ IdleFlags /\ IdleProfile /\ IdleRoot
    /\ rflags = <<>>
    /\ rdflags \in [tag : {"Owned"}, flags : SeqUpTo(XTokens, MaxXFlags)]
    /\ call = NoCall
    /\ ret = None

NextXargo ==
    \/ \E t \in XTokens : PushX(t)
    \/ \E home \in Homes : CallBuildForXargo(home)
    \/ \E home \in Homes : CallForXargo(home)

SpecXargo == InitXargo /\ [][NextXargo]_vars

\* str::split on a one-character delimiter.
RECURSIVE Split(_, _)
Split(s, sep) ==
    LET at == {k \in 1..Len(s) : SubSeq(s, k, k) = sep}
    IN IF at = {} THEN <<s>>
       ELSE LET k == CHOOSE e \in at : \A f \in at : e <= f
            IN <<SubSeq(s, 1, k - 1)>> \o Split(SubSeq(s, k + 1, Len(s)), sep)

Contains(s, ch) == \E k \in 1..Len(s) : SubSeq(s, k, k) = ch
NoUnitSep(c) ==
    /\ ~Contains(c.home, UnitSep)
    /\ \A k \in DOMAIN c.self : ~Contains(c.self[k], UnitSep)

\* C9 as stated: for Rustflags::build_for_xargo and Rustdocflags::for_xargo,
\* when no token and not the sysroot path contains the control-character
\* delimiter, splitting the output on that delimiter yields exactly the
\* original tokens in order followed by "--sysroot" and the path.
C9_BothSplitBack ==
    (/\ call.op \in {"Rustflags::build_for_xargo", "Rustdocflags::for_xargo"}
     /\ NoUnitSep(call))
        => Split(ret, UnitSep) = call.self \o <<"--sysroot", call.home>>

\* The part of C9 the code satisfies: the statement for build_for_xargo alone.
BuildForXargoSplitsBack ==
    (call.op = "Rustflags::build_for_xargo" /\ NoUnitSep(call))
        => Split(ret, UnitSep) = call.self \o <<"--sysroot", call.home>>

\* for_xargo joins with a space: a flag list and sysroot path without spaces
\* split back on the space, one with a space in a token or the path does not.
ForXargoSplitsOnSpace ==
    call.op = "Rustdocflags::for_xargo" =>
        ((Split(ret, " ") = call.self \o <<"--sysroot", call.home>>)
            <=> (/\ ~Contains(call.home, " ")
                 /\ \A k \in DOMAIN call.self : ~Contains(call.self[k], " ")))

(***************************************************************************)
(* flags, rustflags and rustdocflags (cargo.rs 71-157).                    *)
(***************************************************************************)
\* Option and Result values.
Some(x) == [tag |-> "Some", v |-> x]
Ok(x) == [tag |-> "Ok", v |-> x]
Err(m) == [tag |-> "Err", msg |-> m]

\* toml::Value: a tagged union.
VString(x) == [tag |-> "String", s |-> x]
VInteger(x) == [tag |-> "Integer", i |-> x]
VBoolean(x) == [tag |-> "Boolean", b |-> x]
VArray(x) == [tag |-> "Array", a |-> x]
VTable(x) == [tag |-> "Table", m |-> x]

\* Value::get(key) with a string key: the entry of a table, None for a key
\* that is not there and for a value that is no table.
ValueGet(v, key) ==
    IF v.tag = "Table" /\ key \in DOMAIN v.m THEN Some(v.m[key]) ELSE None

\* Option<&Value>::and_then(|t| t.get(key))
AndThenGet(o, key) == IF o.tag = "Some" THEN ValueGet(o.v, key) ELSE None

\* str::to_uppercase, letter by letter.
LowerCase == "abcdefghijklmnopqrstuvwxyz"
UpperCase == "ABCDEFGHIJKLMNOPQRSTUVWXYZ"
UpperChar(c) ==
    IF \E k \in 1..Len(LowerCase) : SubSeq(LowerCase, k, k) = c
    THEN LET k == CHOOSE j \in 1..Len(LowerCase) : SubSeq(LowerCase, j, j) = c
         IN SubSeq(UpperCase, k, k)
    ELSE c
RECURSIVE ToUppercase(_)
ToUppercaseUnchanged(str) == str
ToUppercase(str) ==
    IF str = "" THEN ""
    ELSE UpperChar(SubSeq(str, 1, 1)) \o ToUppercase(SubSeq(str, 2, Len(str)))

\* env::var_os(name)
VarOs(e, name) == IF name \in DOMAIN e THEN Some(e[name]) ELSE None

\* char::is_whitespace, for the characters of the model.
IsWhitespace(c) == c \in {" ", "\t", "\n"}

\* str::split_whitespace().collect(): the maximal runs of characters that
\* are not whitespace, scanning from position i with the run cur open.
RECURSIVE SplitLoop(_, _, _, _)
SplitLoop(str, i, cur, acc) ==
    IF i > Len(str)
    THEN IF cur = "" THEN acc ELSE Append(acc, cur)
    ELSE IF IsWhitespace(SubSeq(str, i, i))
         THEN SplitLoop(str, i + 1, "", IF cur = "" THEN acc ELSE Append(acc, cur))
         ELSE SplitLoop(str, i + 1, cur \o SubSeq(str, i, i), acc)
SplitWhitespace(str) == SplitLoop(str, 1, "", <<>>)

\* The for loop over the array (cargo.rs 121-128): strings are collected
\* until the first element that is no string, which sets error and breaks.
RECURSIVE CollectLoop(_, _, _)
CollectLoopSkipsNonStrings(arr, i, fl) ==
    IF i > Len(arr) THEN [error |-> FALSE, flags |-> fl]
    ELSE IF arr[i].tag = "String"
         THEN CollectLoop(arr, i + 1, Append(fl, arr[i].s))
         ELSE CollectLoop(arr, i + 1, fl)
CollectLoop(arr, i, fl) ==
    IF i > Len(arr) THEN [error |-> FALSE, flags |-> fl]
    ELSE IF arr[i].tag = "String"
         THEN CollectLoop(arr, i + 1, Append(fl, arr[i].s))
         ELSE [error |-> TRUE, flags |-> fl]

\* cargo.rs 107-116: target.<target>.<tool>, or else build.<tool>; build
\* says that the or_else closure ran.
LookupBuildFirst(table, target, tool) ==
    LET b == AndThenGet(ValueGet(table, "build"), tool)
    IN IF b.tag = "Some"
       THEN [array |-> b, build |-> TRUE]
       ELSE [array |-> AndThenGet(AndThenGet(ValueGet(table, "target"), target), tool),
             build |-> FALSE]
Lookup(table, target, tool) ==
    LET t == AndThenGet(AndThenGet(ValueGet(table, "target"), target), tool)
    IN IF t.tag = "Some"
       THEN [array |-> t, build |-> FALSE]
       ELSE [array |-> AndThenGet(ValueGet(table, "build"), tool), build |-> TRUE]

\* The two error messages (cargo.rs 135-146).
BuildError(tool) ==
    Err(".cargo/config: build." \o tool \o " must be an array of strings")
TargetError(target, tool) ==
    Err(".cargo/config: target." \o target \o "." \o tool
            \o " must be an array of strings")

\* fn flags(config, target, tool), reading the environment e.
Flags(e, cfg, target, tool) ==
    LET t == VarOs(e, ToUppercase(tool))
    IN IF t.tag = "Some" THEN Ok(SplitWhitespace(t.v))
       ELSE IF cfg.tag = "Some"
       THEN LET found == Lookup(cfg.table, target, tool)
            IN IF found.array.tag = "Some"
               THEN LET array == found.array.v
                        loop == IF array.tag = "Array"
                                THEN CollectLoop(array.a, 1, <<>>)
                                ELSE [error |-> TRUE, flags |-> <<>>]
                    IN IF loop.error
                       THEN IF found.build THEN BuildError(tool)
                            ELSE TargetError(target, tool)
                       ELSE Ok(loop.flags)
               ELSE Ok(<<>>)
       ELSE Ok(<<>>)

\* pub fn rustflags / pub fn rustdocflags: flags for their tool, wrapped.
Rustflags(e, cfg, target) == Flags(e, cfg, target, "rustflags")
Rustdocflags(e, cfg, target) == Flags(e, cfg, target, "rustdocflags")

\* The targets, environments and configurations of the model.
TargetT == "thumbv7m-none-eabi"
TargetU == "x86_64-unknown-none"
Targets == {TargetT, TargetU}

\* Partial functions: every choice of a value, or of no entry, for each key.
Tables(choices) ==
    UNION {{f \in [D -> UNION {choices[k] : k \in D}] : \A k \in D : f[k] \in choices[k]}
               : D \in SUBSET DOMAIN choices}

Envs ==
    Tables([RUSTFLAGS |-> {"", "-C foo -C bar", "  -a\t-b \n "},
            RUSTDOCFLAGS |-> {"--cfg docs"},
            rustflags |-> {"-z"}])

ToolEntries ==
    {VArray(<<>>), VArray(<<VString("-a")>>), VArray(<<VString("-b")>>),
     VArray(<<VString("-a"), VString("-c d")>>),
     VArray(<<VInteger(1)>>),
     VArray(<<VString("-a"), VBoolean(TRUE), VString("-b")>>),
     VString("not-an-array")}

ToolTables ==
    {VTable(m) : m \in Tables([rustflags |-> ToolEntries,
                               rustdocflags |-> {VArray(<<VString("-d")>>)}])}

TargetSections ==
    {VTable(m) :
        m \in Tables((TargetT :> (ToolTables \cup {VString("x")}))
                  @@ (TargetU :> {VTable([rustflags |-> VArray(<<VString("-u")>>)])}))}

\* Some(&Config { table })
SomeConfig(table) == [tag |-> "Some", table |-> table]

Configs ==
    {None} \cup
    {SomeConfig(VTable(m)) :
        m \in Tables([target |-> TargetSections \cup {VString("x")},
                      build |-> ToolTables \cup {VString("x")}])}

\* A call of rustflags or rustdocflags.
CallRustflags(target) ==
    /\ call' = [op |-> "flags", target |-> target, tool |-> "rustflags"]
    /\ ret' = Rustflags(env, config, target)
    /\ UNCHANGED <<env, config, rflags, rdflags, profile, fs>>

CallRustdocflags(target) ==
    /\ call' = [op |-> "flags", target |-> target, tool |-> "rustdocflags"]
    /\ ret' = Rustdocflags(env, config, target)
    /\ UNCHANGED <<env, config, rflags, rdflags, profile, fs>>

InitFlags ==
    /\ IdleRustflags /\ IdleRustdocflags /\ IdleProfile /\ IdleRoot
    /\ env \in Envs
    /\ config \in Configs
    /\ call = NoCall
    /\ ret = None

NextFlags ==
    \/ \E target \in Targets : CallRustflags(target)
    \/ \E target \in Targets : CallRustdocflags(target)

SpecFlags == InitFlags /\ [][NextFlags]_vars

(***************************************************************************)
(* Properties of flags.                                                    *)
(***************************************************************************)
IsFlagsCall == call.op = "flags"
\* The environment variable of a tool.
EnvName(tool) == IF tool = "rustflags" THEN "RUSTFLAGS" ELSE "RUSTDOCFLAGS"
EnvIsSet == EnvName(call.tool) \in DOMAIN env

\* The keys of the config, read directly from the tables.
HasTable(v, key) == v.tag = "Table" /\ key \in DOMAIN v.m
TargetKeyPresent ==
    /\ config # None
    /\ HasTable(config.table, "target")
    /\ HasTable(config.table.m["target"], call.target)
    /\ HasTable(config.table.m["target"].m[call.target], call.tool)
BuildKeyPresent ==
    /\ config # None
    /\ HasTable(config.table, "build")
    /\ HasTable(config.table.m["build"], call.tool)
TargetEntry == config.table.m["target"].m[call.target].m[call.tool]
BuildEntry == config.table.m["build"].m[call.tool]
WellFormed(v) == v.tag = "Array" /\ \A k \in DOMAIN v.a : v.a[k].tag = "String"
StringsOf(v) == [k \in DOMAIN v.a |-> v.a[k].s]

\* The whitespace-separated tokens of a string, by position: token j runs
\* from the j-th position where a run of non-whitespace characters starts to
\* the j-th position where one ends.
NonWs(str, k) == SubSeq(str, k, k) \notin {" ", "\t", "\n"}
RunStarts(str) == {k \in 1..Len(str) : NonWs(str, k) /\ (k = 1 \/ ~NonWs(str, k - 1))}
RunEnds(str) == {k \in 1..Len(str) : NonWs(str, k) /\ (k = Len(str) \/ ~NonWs(str, k + 1))}
Nth(S, j) == CHOOSE x \in S : Cardinality({y \in S : y <= x}) = j
TokensOf(str) ==
    [j \in 1..Cardinality(RunStarts(str)) |->
        SubSeq(str, Nth(RunStarts(str), j), Nth(RunEnds(str), j))]

\* C2: when the environment variable named by the uppercased tool name is
\* set, flags returns Ok with exactly the whitespace-separated tokens of its
\* value in order (none for an empty or all-whitespace value), whatever the
\* target and whatever the config, absent, well-formed or malformed.
C2_EnvironmentWins ==
    (IsFlagsCall /\ EnvIsSet) =>
        /\ ret = Ok(TokensOf(env[EnvName(call.tool)]))
        /\ env[EnvName(call.tool)] = "-C foo -C bar"
               => ret = Ok(<<"-C", "foo", "-C", "bar">>)
        /\ env[EnvName(call.tool)] = "" => ret = Ok(<<>>)

\* rustflags called with RUSTFLAGS set and a config whose build.rustflags is
\* no array.
C2_Witness ==
    /\ IsFlagsCall /\ call.tool = "rustflags"
    /\ "RUSTFLAGS" \in DOMAIN env /\ env["RUSTFLAGS"] = "  -a\t-b \n "
    /\ "rustflags" \notin DOMAIN env
    /\ BuildKeyPresent /\ BuildEntry = VString("not-an-array")
    /\ ret = Ok(<<"-a", "-b">>)

\* C3: with the environment variable unset, the entry used is
\* target.<target>.<tool> when that key is present, otherwise build.<tool>
\* when that key is present; a well-formed entry is returned as its strings
\* in array order; with no config or neither key the result is Ok with the
\* empty list.  With target.T.rustflags = ["-a"] and build.rustflags = ["-b"]
\* target T resolves to ["-a"] and a target U without an entry to ["-b"].
C3_TargetThenBuild ==
    (IsFlagsCall /\ ~EnvIsSet) =>
        /\ (TargetKeyPresent /\ WellFormed(TargetEntry))
               => ret = Ok(StringsOf(TargetEntry))
        /\ (~TargetKeyPresent /\ BuildKeyPresent /\ WellFormed(BuildEntry))
               => ret = Ok(StringsOf(BuildEntry))
        /\ (~TargetKeyPresent /\ ~BuildKeyPresent) => ret = Ok(<<>>)
        /\ (/\ BuildKeyPresent /\ BuildEntry = VArray(<<VString("-b")>>)
            /\ call.tool = "rustflags")
               => /\ (TargetKeyPresent /\ TargetEntry = VArray(<<VString("-a")>>))
                      => ret = Ok(<<"-a">>)
                  /\ ~TargetKeyPresent => ret = Ok(<<"-b">>)

\* rustflags for target U, which has no entry under target, with
\* target.T.rustflags = ["-a"] and build.rustflags = ["-b"].
C3_Witness ==
    /\ IsFlagsCall /\ ~EnvIsSet
    /\ call.tool = "rustflags" /\ call.target = TargetU
    /\ config # None
    /\ HasTable(config.table, "target")
    /\ config.table.m["target"].tag = "Table"
    /\ DOMAIN config.table.m["target"].m = {TargetT}
    /\ config.table.m["target"].m[TargetT] = VTable([rustflags |-> VArray(<<VString("-a")>>)])
    /\ BuildKeyPresent /\ BuildEntry = VArray(<<VString("-b")>>)
    /\ ret = Ok(<<"-b">>)

\* s occurs in str.
Occurs(str, sub) ==
    \E k \in 1..(Len(str) - Len(sub) + 1) : SubSeq(str, k, k + Len(sub) - 1) = sub

\* C4: with the environment variable unset and a config present, when the
\* entry selected by the target-then-build lookup is no array, or an array
\* with an element at any position that is no string, the result is an error
\* (no flag list); the error names target.<target>.<tool> when the target key
\* was selected, also when a well-formed build.<tool> exists, and build.<tool>
\* when the build key was selected.
C4_MalformedEntryIsError ==
    (IsFlagsCall /\ ~EnvIsSet) =>
        /\ (TargetKeyPresent /\ ~WellFormed(TargetEntry))
               => /\ ret.tag = "Err"
                  /\ ret.msg = ".cargo/config: target." \o call.target \o "."
                                   \o call.tool \o " must be an array of strings"
                  /\ Occurs(ret.msg, "target." \o call.target \o "." \o call.tool)
                  /\ ~Occurs(ret.msg, "build.")
        /\ (~TargetKeyPresent /\ BuildKeyPresent /\ ~WellFormed(BuildEntry))
               => /\ ret.tag = "Err"
                  /\ ret.msg = ".cargo/config: build." \o call.tool
                                   \o " must be an array of strings"
                  /\ Occurs(ret.msg, "build." \o call.tool)
                  /\ ~Occurs(ret.msg, "target.")
        /\ ret.tag = "Err"
               => \/ TargetKeyPresent /\ ~WellFormed(TargetEntry)
                  \/ ~TargetKeyPresent /\ BuildKeyPresent /\ ~WellFormed(BuildEntry)

\* The target entry has a non-string element after a string, and a
\* well-formed build.rustflags exists.
C4_Witness ==
    /\ IsFlagsCall /\ ~EnvIsSet /\ call.tool = "rustflags"
    /\ TargetKeyPresent
    /\ TargetEntry = VArray(<<VString("-a"), VBoolean(TRUE), VString("-b")>>)
    /\ BuildKeyPresent /\ WellFormed(BuildEntry)
    /\ ret.tag = "Err"

(***************************************************************************)
(* Profile::hash (cargo.rs 198-222).                                       *)
(***************************************************************************)
\* The keys of a toml table in the order its map iterates them (sorted).
KeyOrder == <<"debug", "lto", "opt-level", "panic">>

\* Map::remove(key) on a table.
RemoveKeyNot(m, key) == m
RemoveKey(m, key) == [k \in (DOMAIN m) \ {key} |-> m[k]]

\* Value::to_string(): the toml text of a value.  A table is one line
\* "key = value" per entry, in the order of the keys.
Digits == "0123456789"
RECURSIVE ValueToString(_)
TableLines(m, i) ==
    IF KeyOrder[i] \in DOMAIN m
    THEN KeyOrder[i] \o " = " \o ValueToString(m[KeyOrder[i]]) \o "\n"
    ELSE ""
ValueToString(v) ==
    CASE v.tag = "String" -> "\"" \o v.s \o "\""
      [] v.tag = "Boolean" -> IF v.b THEN "true" ELSE "false"
      [] v.tag = "Integer" -> SubSeq(Digits, v.i + 1, v.i + 1)
      [] v.tag = "Table" ->
             TableLines(v.m, 1) \o TableLines(v.m, 2) \o TableLines(v.m, 3)
                 \o TableLines(v.m, 4)

\* Profile::hash(&self, hasher) on the table self borrows: the table after
\* the call and the hasher after the call.
ProfileHashAlways(table, h) ==
    LET v == IF table.tag = "Table" THEN VTable(RemoveKey(table.m, "lto")) ELSE table
    IN [table |-> table, h |-> HashStr(h, ValueToString(v))]
ProfileHash(table, h) ==
    LET v == IF table.tag = "Table" THEN VTable(RemoveKey(table.m, "lto")) ELSE table
    IN IF v.tag = "Table" /\ DOMAIN v.m = {}
       THEN [table |-> table, h |-> h]
       ELSE [table |-> table, h |-> HashStr(h, ValueToString(v))]

\* The values of profile.release in the model: tables over four keys, and
\* two values that are no table.
LtoValues == {VBoolean(TRUE), VBoolean(FALSE), VString("thin")}
ProfileTables ==
    {VTable(m) :
        m \in Tables(("lto" :> LtoValues)
                  @@ ("panic" :> {VString("abort"), VString("unwind")})
                  @@ ("opt-level" :> {VInteger(3), VString("s")})
                  @@ ("debug" :> {VBoolean(TRUE)}))}
Profiles == ProfileTables \cup {VString("release"), VBoolean(TRUE)}

CallProfileHash(h0) ==
    /\ call' = [op |-> "Profile::hash", self |-> profile, h0 |-> h0]
    /\ ret' = ProfileHash(profile, h0)
    /\ profile' = ProfileHash(profile, h0).table
    /\ UNCHANGED <<env, config, rflags, rdflags, fs>>

InitProfile ==
    /\ IdleFlags /\ IdleRustflags /\ IdleRustdocflags /\ IdleRoot
    /\ profile \in Profiles
    /\ call = NoCall
    /\ ret = None

NextProfile == \E h0 \in PriorHashers : CallProfileHash(h0)

SpecProfile == InitProfile /\ [][NextProfile]_vars

(***************************************************************************)
(* Properties of Profile::hash.                                            *)
(***************************************************************************)
IsProfileHashCall == call.op = "Profile::hash"
OnTable == IsProfileHashCall /\ call.self.tag = "Table"

\* A table without its lto entry, and with lto set to v.
WithoutLto(t) == VTable([k \in (DOMAIN t.m) \ {"lto"} |-> t.m[k]])
WithLto(t, v) == VTable([k \in (DOMAIN t.m) \cup {"lto"} |-> IF k = "lto" THEN v ELSE t.m[k]])

\* C6: a profile table with lto set to any value and the same table without
\* lto feed the hasher the same bytes, and a table that differs in a key other
\* than lto feeds it different bytes.
C6_LtoDoesNotCount ==
    OnTable =>
        /\ ProfileHash(WithoutLto(call.self), call.h0).h = ret.h
        /\ \A v \in LtoValues : ProfileHash(WithLto(call.self, v), call.h0).h = ret.h
        /\ \A q \in ProfileTables :
               WithoutLto(q) # WithoutLto(call.self)
                   => ProfileHash(q, call.h0).h # ret.h
        /\ (WithoutLto(call.self) = VTable("panic" :> VString("abort")))
               => ProfileHash(VTable("panic" :> VString("unwind")), call.h0).h # ret.h

\* Profile::hash on { lto = true, panic = "abort" }.
C6_Witness ==
    /\ OnTable
    /\ call.self = VTable(("lto" :> VBoolean(TRUE)) @@ ("panic" :> VString("abort")))
    /\ ret.h # call.h0

\* C7: when the table without its lto key is empty, nothing is fed to the
\* hasher; otherwise exactly one string is fed, the serialized remaining
\* table; either way the table the Profile refers to is left as it was.
C7_OneWriteOrNone ==
    OnTable =>
        /\ StartsWith(ret.h, call.h0)
        /\ (DOMAIN call.self.m) \subseteq {"lto"} => ret.h = call.h0
        /\ ~((DOMAIN call.self.m) \subseteq {"lto"})
               => SplitTerminated(Fed(call, ret))
                      = <<ValueToString(WithoutLto(call.self))>>
        /\ profile = call.self
        /\ ret.table = call.self

\* Profile::hash on { lto = false }, and on a table with two other keys.
C7_Witness ==
    /\ OnTable
    /\ call.self = VTable("lto" :> VBoolean(FALSE))
    /\ call.h0 # ""

(***************************************************************************)
(* Subcommand (cargo.rs 283-317).                                          *)
(***************************************************************************)
Subcommands == {"Clean", "Doc", "Init", "New", "Other", "Search", "Update"}

\* impl From<&str> for Subcommand
SubcommandFromAnyCase(str) ==
    CASE ToUppercase(str) = "CLEAN" -> "Clean"
      [] ToUppercase(str) = "DOC" -> "Doc"
      [] ToUppercase(str) = "INIT" -> "Init"
      [] ToUppercase(str) = "NEW" -> "New"
      [] ToUppercase(str) = "SEARCH" -> "Search"
      [] ToUppercase(str) = "UPDATE" -> "Update"
      [] OTHER -> "Other"
SubcommandFrom(str) ==
    CASE str = "clean" -> "Clean"
      [] str = "doc" -> "Doc"
      [] str = "init" -> "Init"
      [] str = "new" -> "New"
      [] str = "search" -> "Search"
      [] str = "update" -> "Update"
      [] OTHER -> "Other"

\* Subcommand::needs_sysroot(&self)
NeedsSysroot(self) ==
    CASE self \in {"Clean", "Init", "New", "Search", "Update"} -> FALSE
      [] OTHER -> TRUE

\* The subcommand strings of the model: the six names, each in upper case
\* and capitalized, cut short, and with a character before or after it, and
\* names of other cargo subcommands.
SubcommandNames == {"clean", "doc", "init", "new", "search", "update"}
SubcommandStrings ==
    SubcommandNames
        \cup {ToUppercase(n) : n \in SubcommandNames}
        \cup {ToUppercase(SubSeq(n, 1, 1)) \o SubSeq(n, 2, Len(n)) : n \in SubcommandNames}
        \cup UNION {{SubSeq(n, 1, k) : k \in 0..(Len(n) - 1)} : n \in SubcommandNames}
        \cup UNION {{n \o " ", n \o "s", " " \o n, "-" \o n} : n \in SubcommandNames}
        \cup {"build", "check", "test", "run", "rustc", "frobnicate", "--version"}

\* Subcommand::from(s)
CallSubcommandFrom(str) ==
    /\ call' = [op |-> "Subcommand::from", s |-> str]
    /\ ret' = SubcommandFrom(str)
    /\ UNCHANGED <<env, config, rflags, rdflags, profile, fs>>

\* needs_sysroot on the Subcommand that from returned for call.s.
CallNeedsSysroot ==
    /\ call.op = "Subcommand::from"
    /\ call' = [op |-> "Subcommand::needs_sysroot", self |-> ret, s |-> call.s]
    /\ ret' = NeedsSysroot(ret)
    /\ UNCHANGED <<env, config, rflags, rdflags, profile, fs>>

InitSubcommand ==
    /\ IdleFlags /\ IdleRustflags /\ IdleRustdocflags /\ IdleProfile /\ IdleRoot
    /\ call = NoCall
    /\ ret = None

NextSubcommand ==
    \/ \E str \in SubcommandStrings : CallSubcommandFrom(str)
    \/ CallNeedsSysroot

SpecSubcommand == InitSubcommand /\ [][NextSubcommand]_vars

\* C8: Subcommand::from is total, and the subcommand it returns for s needs
\* no sysroot exactly when s is one of "clean", "init", "new", "search",
\* "update", letter for letter; "doc" and every string that is no subcommand
\* name (which maps to Other) need a sysroot.
C8_NeedsSysrootUnlessListed ==
    /\ call.op = "Subcommand::from" =>
           /\ ret \in Subcommands
           /\ call.s \notin SubcommandNames => ret = "Other"
           /\ call.s = "doc" => ret = "Doc"
    /\ call.op = "Subcommand::needs_sysroot" =>
           /\ ret \in BOOLEAN
           /\ ret = FALSE <=> call.s \in {"clean", "init", "new", "search", "update"}
           /\ call.self = "Other" => ret = TRUE

\* needs_sysroot was asked of the subcommand of "Clean", which is no name.
C8_Witness ==
    /\ call.op = "Subcommand::needs_sysroot"
    /\ call.s = "Clean"
    /\ ret = TRUE

(***************************************************************************)
(* root (cargo.rs 255-281).  A path is its components: abs says that it    *)
(* starts at the root directory, comps are the names after that.           *)
(***************************************************************************)
\* Deepest directory in which the model places a marker file.
MaxDepth == 2

Path(abs, comps) == [abs |-> abs, comps |-> comps]

\* Sequence filter.
RECURSIVE Keep(_, _)
Keep(q, S) ==
    IF q = <<>> THEN <<>>
    ELSE IF q[1] \in S THEN Keep(Tail(q), S) ELSE <<q[1]>> \o Keep(Tail(q), S)

\* PathBuf::from(p): the components of the string; repeated and trailing
\* separators and "." name no component (Rust keeps a "." that leads the
\* path; no manifest path of the model has one).
PathBufFrom(p) == Path(StartsWith(p, "/"), Keep(Split(p, "/"), {"", "."}))

\* PathBuf::pop(): drops the last component; nothing to drop leaves the path
\* as it is.
PopNothing(pb) == pb
Pop(pb) ==
    IF pb.comps = <<>> THEN pb
    ELSE Path(pb.abs, SubSeq(pb.comps, 1, Len(pb.comps) - 1))

\* let name = match mode { .. }
MarkerNameAlwaysCargo(mode) == "Cargo.toml"
MarkerName(mode) == IF mode = "Build" THEN "Cargo.toml" ELSE "Xargo.toml"

\* path.join(file).exists(): a relative path is resolved by the system
\* against the working directory of the process.
Exists(f, dir, file) ==
    IF dir.abs THEN <<dir.comps, file>> \in f.markers
    ELSE f.cwd.tag = "Ok" /\ <<f.cwd.v.comps \o dir.comps, file>> \in f.markers

\* util::search(path, file): the first of path and its ancestors that holds
\* file, None when the path has no parent left.
RECURSIVE Search(_, _, _)
Search(f, dir, file) ==
    IF Exists(f, dir, file) THEN Some(dir)
    ELSE IF dir.comps = <<>> THEN None
    ELSE Search(f, Path(dir.abs, SubSeq(dir.comps, 1, Len(dir.comps) - 1)), file)

\* pub fn root(mode, manifest_path).  cwdRead says whether env::current_dir
\* was called, searched what util::search was called with.
Root(f, mode, manifest) ==
    LET name == MarkerName(mode)
    IN IF manifest.tag = "None"
       THEN IF f.cwd.tag = "Ok"
            THEN [result |-> Ok(Search(f, f.cwd.v, name)), cwdRead |-> TRUE,
                  searched |-> Some([from |-> f.cwd.v, file |-> name])]
            ELSE [result |-> Err("couldn't get the current directory"),
                  cwdRead |-> TRUE, searched |-> None]
       ELSE LET pb == Pop(PathBufFrom(manifest.v))
            IN [result |-> Ok(Search(f, pb, name)), cwdRead |-> FALSE,
                searched |-> Some([from |-> pb, file |-> name])]

\* The directories, marker files and manifest paths of the model.
DirNames == <<"w", "app", "x", "y">>
Dirs == {SubSeq(DirNames, 1, k) : k \in 0..MaxDepth}
FileSystems ==
    [cwd : {Ok(Path(TRUE, d)) : d \in Dirs} \cup {Err("deleted")},
     markers : SUBSET (Dirs \X {"Cargo.toml", "Xargo.toml"})]
ManifestPaths ==
    {None, Some("/w/app/Cargo.toml"), Some("/w/Cargo.toml"), Some("/Cargo.toml"),
     Some("Cargo.toml"), Some("app/Cargo.toml"), Some("/w/app/"), Some("/w//app/x.toml"),
     Some("/"), Some("")}

CallRoot(mode, manifest) ==
    /\ call' = [op |-> "root", mode |-> mode, manifest |-> manifest]
    /\ ret' = Root(fs, mode, manifest)
    /\ UNCHANGED <<env, config, rflags, rdflags, profile, fs>>

InitRoot ==
    /\ IdleFlags /\ IdleRustflags /\ IdleRustdocflags /\ IdleProfile
    /\ fs \in FileSystems
    /\ call = NoCall
    /\ ret = None

NextRoot == \E mode \in {"Build", "Check"}, manifest \in ManifestPaths : CallRoot(mode, manifest)

SpecRoot == InitRoot /\ [][NextRoot]_vars

(***************************************************************************)
(* Properties of root.                                                     *)
(***************************************************************************)
IsRootCall == call.op = "root"

\* The directory a search starts in holds no marker file, and none of its
\* ancestors does.
NothingAbove(from, file) ==
    \A k \in 0..Len(from.comps) :
        LET d == SubSeq(from.comps, 1, k)
        IN IF from.abs THEN <<d, file>> \notin fs.markers
           ELSE fs.cwd.tag = "Ok" => <<fs.cwd.v.comps \o d, file>> \notin fs.markers

\* C10: root searches for Cargo.toml in Build mode and Xargo.toml in Check
\* mode; with a manifest path the search starts at that path without its
\* final component and env::current_dir is not called; the only error is a
\* working directory that cannot be read when no manifest path is given; a
\* search that finds no marker gives Ok(None).
C10_RootOutcomes ==
    IsRootCall =>
        /\ ret.searched.tag = "Some" =>
               ret.searched.v.file
                   = (IF call.mode = "Build" THEN "Cargo.toml" ELSE "Xargo.toml")
        /\ call.manifest.tag = "Some" =>
               /\ ~ret.cwdRead
               /\ ret.searched.tag = "Some"
               /\ LET given == PathBufFrom(call.manifest.v)
                      from == ret.searched.v.from
                  IN /\ from.abs = given.abs
                     /\ \/ given.comps = <<>> /\ from.comps = <<>>
                        \/ /\ given.comps # <<>>
                           /\ given.comps = Append(from.comps, given.comps[Len(given.comps)])
        /\ ret.result.tag = "Err" <=> (call.manifest.tag = "None" /\ fs.cwd.tag = "Err")
        /\ (ret.searched.tag = "Some"
                /\ NothingAbove(ret.searched.v.from, ret.searched.v.file))
               => ret.result = Ok(None)
        /\ (call.manifest = Some("/w/app/Cargo.toml") /\ call.mode = "Build")
               => ret.searched.v = [from |-> Path(TRUE, <<"w", "app">>), file |-> "Cargo.toml"]

\* root in Check mode with a manifest path, an unreadable working directory
\* and a Cargo.toml, but no Xargo.toml, above the manifest.
C10_Witness ==
    /\ IsRootCall
    /\ call.mode = "Check"
    /\ call.manifest = Some("/w/app/Cargo.toml")
    /\ fs.cwd.tag = "Err"
    /\ fs.markers = {<<(<<"w">>), "Cargo.toml">>}
    /\ ret.result = Ok(None)

=============================================================================
